---- MODULE Spec2Model ----
(***************************************************************************)
(* A model of dpll-rs: the two formula engines (Cnf, CnfGraph), the        *)
(* partial assignment tracker and the two search drivers (dpll, cfcl).     *)
(*                                                                         *)
(* A literal is modelled by its dense code: 2 * index + (1 if negative).   *)
(* Hash-set and hash-map iteration order is not fixed by the source, so    *)
(* every loop over one is a nondeterministic choice of order; an operation *)
(* whose outcome depends on that order is a set of outcomes.               *)
(***************************************************************************)
EXTENDS Integers, Sequences, FiniteSets, TLC

VARIABLES input, mode, cnf, gcnf, solution, stack, pc, ret, pure, learnt, last

vars == <<input, mode, cnf, gcnf, solution, stack, pc, ret, pure, learnt, last>>

\* ------------------------------------------------------------------ bounds
\* Largest variable id (magnitude) of an enumerated input clause list.
MaxVar == 3
\* Largest number of clauses of an enumerated input clause list.
MaxClauses == 3
\* Largest number of literals of an enumerated input clause.
MaxLen == 2

\* The variables of the formulas that are given clauses after loading.
MaxAddVar == 2

\* The add_clause calls made on a formula after loading.
MaxAdded == 1

\* usize::MAX, the "no clause id" sentinel.  Its value, 2^64 - 1, is outside
\* TLC's integers; the model only needs it to differ from every clause id.
UsizeMax == -1

\* ---------------------------------------------------------------- helpers
Range(s) == {s[i] : i \in DOMAIN s}

Abs(x) == IF x < 0 THEN -x ELSE x

SetMax(S) == IF S = {} THEN 0 ELSE CHOOSE x \in S : \A y \in S : y <= x

SetMin(S) == CHOOSE x \in S : \A y \in S : x <= y

\* HashMap::new
EmptyMap == [k \in {} |-> 0]

\* A map without the keys in K.
Without(f, K) == [k \in DOMAIN f \ K |-> f[k]]

\* HashMap::insert: the key is added or its value overwritten.
Put(f, k, v) == [x \in DOMAIN f \cup {k} |-> IF x = k THEN v ELSE f[x]]

\* ------------------------------------------------------------ Lit (lit.rs)
\* Lit::from_dimacs: magnitude minus one is the variable index, the sign the
\* polarity; the literal is held as its code.
from_dimacs(x) == 2 * (Abs(x) - 1) + (IF x < 0 THEN 1 ELSE 0)

index(lit) == lit \div 2

code(lit) == lit

is_positive(lit) == lit % 2 = 0

is_negative(lit) == lit % 2 = 1

\* impl Not for Lit: flips the polarity only.
not(lit) == IF lit % 2 = 0 THEN lit + 1 ELSE lit - 1

\* ------------------------------------------------------- results of calls
Ok == [tag |-> "Ok", val |-> 0]

OkNone == [tag |-> "OkNone", val |-> 0]

OkSome(lit) == [tag |-> "OkSome", val |-> lit]

Err(id) == [tag |-> "Err", val |-> id]

Panic == [tag |-> "Panic", val |-> 0]

NoResult == [tag |-> "None", val |-> 0]

IsOk(r) == r.tag \in {"Ok", "OkNone", "OkSome"}

\* ------------------------------------------------------ clause.rs: loader
\* impl From<&[i32]> for Clause
Clause_from(value) == [i \in DOMAIN value |-> from_dimacs(value[i])]

\* impl From<&[Vec<i32>]> for Clauses: the clauses, the number of distinct
\* variables and the largest variable id.
Clauses_from(value) ==
    LET mags == UNION {{Abs(value[i][j]) : j \in DOMAIN value[i]} : i \in DOMAIN value}
    IN  [clauses |-> [i \in DOMAIN value |-> Clause_from(value[i])],
         n_lit   |-> Cardinality(mags),
         max     |-> SetMax(mags)]

\* ---------------------------------------------------- cnf.rs: Variant A
Cnf_new(n_lit, n_clause) ==
    [n_lit |-> n_lit, n_clause |-> n_clause,
     clauses |-> EmptyMap, occurrences |-> EmptyMap, units |-> {}]

Cnf_num_clause(c) == Cardinality(DOMAIN c.clauses)

\* entry(lit).or_insert_with(Default::default).insert(clause_id), for every
\* literal of the clause.
AddOccurrences(occ, clause, clause_id) ==
    [l \in DOMAIN occ \cup clause |->
        (IF l \in DOMAIN occ THEN occ[l] ELSE {})
        \cup (IF l \in clause THEN {clause_id} ELSE {})]

Cnf_add_clause(c, clause_seq) ==
    LET clause    == Range(clause_seq)
        clause_id == Cardinality(DOMAIN c.clauses)
    IN  [c EXCEPT
           !.occurrences = AddOccurrences(@, clause, clause_id),
           !.units       = IF Cardinality(clause) = 1 THEN @ \cup {clause_id} ELSE @,
           !.clauses     = Put(@, clause_id, clause)]

RECURSIVE Cnf_add_all(_, _, _)
Cnf_add_all(c, clauses, i) ==
    IF i > Len(clauses) THEN c
    ELSE Cnf_add_all(Cnf_add_clause(c, clauses[i]), clauses, i + 1)

\* impl From<Clauses> for Cnf
Cnf_from(value) == Cnf_add_all(Cnf_new(value.n_lit, Len(value.clauses)), value.clauses, 1)

\* A remove_positive that stops after the first clause: the clause of the
\* smallest id goes, the key stays with the other ids.
Cnf_remove_positive_OneClause(c, lit) ==
    IF lit \notin DOMAIN c.occurrences \/ c.occurrences[lit] \cap DOMAIN c.clauses = {}
    THEN [c EXCEPT !.occurrences = Without(@, {lit})]
    ELSE LET id == SetMin(c.occurrences[lit] \cap DOMAIN c.clauses)
         IN  [c EXCEPT
                !.occurrences = [l \in DOMAIN @ |->
                                   IF l \in c.clauses[id] THEN @[l] \ {id} ELSE @[l]],
                !.clauses     = Without(@, {id}),
                !.n_clause    = @ - 1,
                !.units       = @ \ {id}]

\* The ids of `occurs` are visited in any order; the outcome does not depend
\* on it.
Cnf_remove_positive(c, lit) ==
    IF lit \notin DOMAIN c.occurrences THEN c
    ELSE LET occurs  == c.occurrences[lit]
             removed == occurs \cap DOMAIN c.clauses
             occ1    == Without(c.occurrences, {lit})
         IN  [c EXCEPT
                !.occurrences = [l \in DOMAIN occ1 |->
                                    occ1[l] \ {id \in removed : l \in c.clauses[id]}],
                !.clauses     = Without(@, removed),
                !.n_clause    = @ - Cardinality(removed),
                !.units       = @ \ removed]

\* A shrink that forgets the unit worklist.
Cnf_shrink_NoUnits(c, ids, lit) ==
    [c EXCEPT
       !.clauses = [id \in DOMAIN @ |-> IF id \in ids THEN @[id] \ {lit} ELSE @[id]]]

\* The clauses `ids` of c lose `lit`; those left with one literal enter units.
Cnf_shrink(c, ids, lit) ==
    [c EXCEPT
       !.clauses = [id \in DOMAIN @ |-> IF id \in ids THEN @[id] \ {lit} ELSE @[id]],
       !.units   = @ \cup {id \in ids : Cardinality(c.clauses[id] \ {lit}) = 1}]

\* A remove_negation that misses the conflict: a clause left without a
\* literal is dropped and the call returns Ok.
Cnf_remove_negation_NoConflict(c, lit) ==
    IF lit \notin DOMAIN c.occurrences THEN {[cnf |-> c, res |-> Ok]}
    ELSE LET occurs  == c.occurrences[lit]
             c1      == [c EXCEPT !.occurrences = Without(@, {lit})]
             touched == occurs \cap DOMAIN c.clauses
             empties == {id \in touched : c.clauses[id] \ {lit} = {}}
         IN  {[cnf |-> [Cnf_shrink(c1, touched \ empties, lit) EXCEPT
                           !.clauses = Without(@, empties)],
               res |-> Ok]}

\* The ids of `occurs` are visited in any order and the first clause found
\* empty ends the call: it stays removed, and of the other clauses any set
\* of those that do not become empty may have been shrunk before it.
Cnf_remove_negation(c, lit) ==
    IF lit \notin DOMAIN c.occurrences THEN {[cnf |-> c, res |-> Ok]}
    ELSE LET occurs  == c.occurrences[lit]
             c1      == [c EXCEPT !.occurrences = Without(@, {lit})]
             touched == occurs \cap DOMAIN c.clauses
             empties == {id \in touched : c.clauses[id] \ {lit} = {}}
         IN  IF empties = {}
             THEN {[cnf |-> Cnf_shrink(c1, touched, lit), res |-> Ok]}
             ELSE {[cnf |-> [Cnf_shrink(c1, before, lit) EXCEPT
                                !.clauses = Without(@, {id})],
                    res |-> Err(id)] :
                   id \in empties, before \in SUBSET (touched \ empties)}

\* A propagation that hands remove_negation the literal itself.
Cnf_propagation_NoNegate(c, lit) ==
    Cnf_remove_negation(Cnf_remove_positive(c, lit), lit)

Cnf_propagation(c, lit) ==
    Cnf_remove_negation(Cnf_remove_positive(c, lit), not(lit))

Cnf_unit_propagation(c, clause_id) ==
    IF clause_id \notin DOMAIN c.clauses THEN {[cnf |-> c, res |-> OkNone]}
    ELSE LET clause == c.clauses[clause_id]
             c1     == [c EXCEPT !.clauses = Without(@, {clause_id}),
                                 !.n_clause = @ - 1]
         IN  IF Cardinality(clause) # 1 THEN {[cnf |-> c1, res |-> Panic]}
             ELSE LET lit == CHOOSE l \in clause : TRUE
                  IN  {[cnf |-> o.cnf,
                        res |-> IF o.res.tag = "Ok" THEN OkSome(lit) ELSE o.res] :
                       o \in Cnf_propagation(c1, lit)}

\* Every run of the loop: ids are taken from units in any order.
RECURSIVE Cnf_unit_propagations_from(_, _)
Cnf_unit_propagations_from(c, lits) ==
    IF c.units = {} THEN {[cnf |-> c, res |-> Ok, lits |-> lits]}
    ELSE UNION {
           UNION {
             IF IsOk(o.res)
             THEN Cnf_unit_propagations_from(
                    [o.cnf EXCEPT !.units = @ \ {clause_id}],
                    IF o.res.tag = "OkSome" THEN Append(lits, o.res.val) ELSE lits)
             ELSE {[cnf |-> o.cnf, res |-> o.res, lits |-> lits]} :
             o \in Cnf_unit_propagation(c, clause_id)} :
           clause_id \in c.units}

Cnf_unit_propagations(c) == Cnf_unit_propagations_from(c, <<>>)

\* Cnf::next_guess ignores the strategy: any key of the occurrence index,
\* or none when there is no key.
Cnf_next_guess(c) == DOMAIN c.occurrences

\* ------------------------------------------------ cnf_graph.rs: Variant B
\* FakeHashSet: removed literals stay in `inner`, marked false; `num` counts
\* the inserts minus the removes.
FakeHashSet_from_set(set) == [inner |-> [l \in set |-> TRUE], num |-> Cardinality(set)]

FakeHashSet_remove(s, lit) == [inner |-> Put(s.inner, lit, FALSE), num |-> s.num - 1]

FakeHashSet_iter(s) == {l \in DOMAIN s.inner : s.inner[l]}

FakeHashSet_all(s) == DOMAIN s.inner

FakeHashSet_len(s) == s.num

\* The graph and the node table.  A literal gets a node once, when nodes[code]
\* is still NodeIndex::end(), and nodes are never removed, so a node is named
\* by its literal: `nodes` is the set of literals whose table entry is set,
\* and `edges` counts the edges of each ordered pair (petgraph keeps parallel
\* edges).
CnfGraph_new(n_lit, max_lit, n_clause) ==
    [n_lit |-> n_lit, max_lit |-> max_lit, n_clause |-> n_clause,
     clauses |-> EmptyMap, occurrences |-> EmptyMap, units |-> {},
     nodes |-> {}, edges |-> EmptyMap, guessed |-> <<>>]

\* self.nodes has 2 * max_lit + 2 entries, indexed by the literal's code.
NodeInRange(c, lit) == code(lit) < 2 * c.max_lit + 2

CnfGraph_num_clause(c) == Cardinality({id \in DOMAIN c.clauses : c.clauses[id].valid})

CnfGraph_add_clause(c, clause_seq) ==
    LET clause    == Range(clause_seq)
        clause_id == Cardinality(DOMAIN c.clauses)
    IN  [c EXCEPT
           !.occurrences = AddOccurrences(@, clause, clause_id),
           !.units       = IF Cardinality(clause) = 1 THEN @ \cup {clause_id} ELSE @,
           !.clauses     = Put(@, clause_id,
                               [set |-> FakeHashSet_from_set(clause), valid |-> TRUE])]

RECURSIVE CnfGraph_add_all(_, _, _)
CnfGraph_add_all(c, clauses, i) ==
    IF i > Len(clauses) THEN c
    ELSE CnfGraph_add_all(CnfGraph_add_clause(c, clauses[i]), clauses, i + 1)

\* impl From<Clauses> for CnfGraph
CnfGraph_from(value) ==
    CnfGraph_add_all(CnfGraph_new(value.n_lit, value.max, Len(value.clauses)),
                     value.clauses, 1)

CnfGraph_remove_positive(c, lit) ==
    IF lit \notin DOMAIN c.occurrences THEN c
    ELSE LET occurs  == c.occurrences[lit]
             removed == {id \in occurs \cap DOMAIN c.clauses : c.clauses[id].valid}
             occ1    == Without(c.occurrences, {lit})
         IN  [c EXCEPT
                !.occurrences = [l \in DOMAIN occ1 |->
                    occ1[l] \ {id \in removed : l \in FakeHashSet_iter(c.clauses[id].set)}],
                !.clauses     = [id \in DOMAIN @ |->
                    IF id \in removed THEN [@[id] EXCEPT !.valid = FALSE] ELSE @[id]],
                !.n_clause    = @ - Cardinality(removed),
                !.units       = @ \ removed]

\* Edges added the wrong way round: from each affected node to `from`.
AddEdges_Reversed(edges, from, tos) ==
    [e \in DOMAIN edges \cup {<<t, from>> : t \in tos} |->
        IF e \in DOMAIN edges THEN edges[e] ELSE 1]

\* Edges added in both directions between `from` and each affected node.
AddEdges_BothWays(edges, from, tos) ==
    [e \in DOMAIN edges \cup {<<from, t>> : t \in tos} \cup {<<t, from>> : t \in tos} |->
        IF e \in DOMAIN edges THEN edges[e] ELSE 1]

\* graph.add_edge(from, to, 1) unless graph.contains_edge(from, to)
AddEdges(edges, from, tos) ==
    [e \in DOMAIN edges \cup {<<from, t>> : t \in tos} |->
        IF e \in DOMAIN edges THEN edges[e] ELSE 1]

\* The clauses `ids` lose `lit` and are (re)inserted as valid; the graph
\* gets an edge from the node of the complement of `lit` to the node of
\* every literal left in them, missing nodes being created; of the clauses
\* `unit_ids`, those left with len() = 1 enter units.
CnfGraph_shrink(c, ids, unit_ids, lit) ==
    LET after(id) == FakeHashSet_remove(c.clauses[id].set, lit)
        affected  == UNION {FakeHashSet_iter(after(id)) : id \in ids}
    IN  [c EXCEPT
           !.clauses = [id \in DOMAIN @ |->
                          IF id \in ids THEN [set |-> after(id), valid |-> TRUE]
                          ELSE @[id]],
           !.nodes   = @ \cup affected,
           !.edges   = AddEdges(@, not(lit), affected),
           !.units   = @ \cup {id \in unit_ids : FakeHashSet_len(after(id)) = 1}]

\* As in Variant A the ids of `occurs` are visited in any order; the clause
\* found with len() = 0 is shrunk and reinserted as well before the call
\* ends.  The node of the complement of `lit` must exist (else the call
\* panics); an affected literal outside the node table is an index panic.
CnfGraph_remove_negation(c, lit) ==
    IF lit \notin DOMAIN c.occurrences THEN {[cnf |-> c, res |-> Ok]}
    ELSE LET occurs  == c.occurrences[lit]
             c1      == [c EXCEPT !.occurrences = Without(@, {lit})]
             touched == occurs \cap DOMAIN c.clauses
             empties == {id \in touched :
                           FakeHashSet_len(FakeHashSet_remove(c.clauses[id].set, lit)) = 0}
         IN  IF touched # {} /\ not(lit) \notin c.nodes
             THEN {[cnf |-> c1, res |-> Panic]}
             ELSE IF empties = {}
             THEN {[cnf |-> CnfGraph_shrink(c1, touched, touched, lit), res |-> Ok]}
             ELSE {[cnf |-> CnfGraph_shrink(c1, before \cup {id}, before, lit),
                    res |-> Err(id)] :
                   id \in empties, before \in SUBSET (touched \ empties)}

CnfGraph_propagation(c, lit) ==
    IF ~NodeInRange(c, lit) \/ ~NodeInRange(c, not(lit))
    THEN {[cnf |-> c, res |-> Panic]}
    ELSE LET c1 == [c EXCEPT !.nodes = @ \cup {lit}]
             c2 == CnfGraph_remove_positive(c1, lit)
             c3 == [c2 EXCEPT !.nodes = @ \cup {not(lit)}]
         IN  CnfGraph_remove_negation(c3, not(lit))

CnfGraph_unit_propagation(c, clause_id) ==
    IF clause_id \notin DOMAIN c.clauses \/ ~c.clauses[clause_id].valid
    THEN {[cnf |-> c, res |-> OkNone]}
    ELSE LET clause == c.clauses[clause_id].set
             c1     == [c EXCEPT !.clauses[clause_id].valid = FALSE,
                                 !.n_clause = @ - 1]
         IN  IF FakeHashSet_len(clause) # 1 \/ FakeHashSet_iter(clause) = {}
             THEN {[cnf |-> c1, res |-> Panic]}
             ELSE UNION {
                    {[cnf |-> o.cnf,
                      res |-> IF o.res.tag = "Ok" THEN OkSome(lit) ELSE o.res] :
                     o \in CnfGraph_propagation(c1, lit)} :
                    lit \in FakeHashSet_iter(clause)}

RECURSIVE CnfGraph_unit_propagations_from(_, _)
CnfGraph_unit_propagations_from(c, lits) ==
    IF c.units = {} THEN {[cnf |-> c, res |-> Ok, lits |-> lits]}
    ELSE UNION {
           UNION {
             IF IsOk(o.res)
             THEN CnfGraph_unit_propagations_from(
                    [o.cnf EXCEPT !.units = @ \ {clause_id}],
                    IF o.res.tag = "OkSome" THEN Append(lits, o.res.val) ELSE lits)
             ELSE {[cnf |-> o.cnf, res |-> o.res, lits |-> lits]} :
             o \in CnfGraph_unit_propagation(c, clause_id)} :
           clause_id \in c.units}

CnfGraph_unit_propagations(c) == CnfGraph_unit_propagations_from(c, <<>>)

\* Strategy::Direct: the smallest key of the occurrence index in the order of
\* literals, in its positive form; no literal when there is no key.
CnfGraph_next_guess(c) ==
    IF DOMAIN c.occurrences = {} THEN {}
    ELSE LET lit == SetMin(DOMAIN c.occurrences)
         IN  {IF is_negative(lit) THEN not(lit) ELSE lit}

\* A make_guess that records nothing.
CnfGraph_make_guess_NoPush(c, lit) == c

CnfGraph_make_guess(c, lit) == [c EXCEPT !.guessed = Append(@, lit)]

\* A walk that learns every literal it takes from the queue, whatever its
\* predecessors.
RECURSIVE LearnWalk_Every(_, _, _, _)
LearnWalk_Every(c, special, queue, learned) ==
    IF queue = {} THEN {learned}
    ELSE UNION {LearnWalk_Every(c, special, queue \ {lit}, learned \cup {lit}) :
                lit \in queue}

\* The backward walk of learn_from_conflict: a literal is taken from the
\* queue in any order; the learned sets of all runs.
RECURSIVE LearnWalk(_, _, _, _)
LearnWalk(c, special, queue, learned) ==
    IF queue = {} THEN {learned}
    ELSE UNION {
           LET rest    == queue \ {lit}
               parents == {e[1] : e \in {d \in DOMAIN c.edges : d[2] = lit}}
           IN  IF lit \in learned THEN LearnWalk(c, special, rest, learned)
               ELSE IF parents \cap special # {}
               THEN LearnWalk(c, special, rest, learned \cup {lit})
               ELSE LearnWalk(c, special, rest \cup parents, learned) :
           lit \in queue}

\* The clauses learn_from_conflict can return (each a set of literals), or
\* Panic when guessed[0] or clauses[&clause_id] does not exist.
CnfGraph_learn_from_conflict(c, clause_id) ==
    IF c.guessed = <<>> \/ clause_id \notin DOMAIN c.clauses THEN {Panic}
    ELSE LET root    == c.guessed[1]
             special == Range(c.guessed) \ {root}
             queue   == {not(x) : x \in FakeHashSet_all(c.clauses[clause_id].set)} \ {root}
         IN  {[tag |-> "Some", val |-> {not(x) : x \in learned}] :
              learned \in LearnWalk(c, special, queue, {root})}

\* --------------------------------------------- dpll.rs: PartialSolution
PartialSolution_new(n_lit) ==
    [solution |-> [i \in 0..(n_lit - 1) |-> "None"], un_solved |-> 0..(n_lit - 1)]

\* solution[lit.index()] is an index panic when the index is not below n_lit.
AssignInRange(sol, lit) == index(lit) \in DOMAIN sol.solution

PartialSolution_assign_lit(sol, lit) ==
    [solution  |-> [sol.solution EXCEPT
                      ![index(lit)] = IF is_positive(lit) THEN "true" ELSE "false"],
     un_solved |-> sol.un_solved \ {index(lit)}]

PartialSolution_is_solved(sol) == sol.un_solved = {}

\* assign_lit for each literal of a list, in order.
RECURSIVE AssignAll(_, _)
AssignAll(sol, lits) ==
    IF lits = <<>> THEN sol
    ELSE AssignAll(PartialSolution_assign_lit(sol, Head(lits)), Tail(lits))

AllInRange(sol, lits) == \A i \in DOMAIN lits : AssignInRange(sol, lits[i])

\* A pure-literal scan without the test for the complement: every key.
PureLits_EveryKey(occurrences) == DOMAIN occurrences

\* A pure-literal scan with the test inverted: the keys whose complement is
\* a key as well.
PureLits_Inverted(occurrences) ==
    {lit \in DOMAIN occurrences : not(lit) \in DOMAIN occurrences}

\* The literals of the occurrence index whose complement is no key of it.
PureLits(occurrences) ==
    {lit \in DOMAIN occurrences : not(lit) \notin DOMAIN occurrences}

\* ------------------------------------------------------------- the inputs
\* The signed integers of an enumerated clause.
Dimacs == {x \in (0 - MaxVar)..MaxVar : x # 0}

\* The literals a caller may name.
Lits == {from_dimacs(x) : x \in Dimacs}

\* A set of integers as an increasing list.
RECURSIVE SortedSeq(_)
SortedSeq(S) == IF S = {} THEN <<>> ELSE <<SetMin(S)>> \o SortedSeq(S \ {SetMin(S)})

\* The enumerated clauses: lists of at most MaxLen distinct nonzero integers
\* (the empty list and a variable in both polarities included).
ClauseSpace == {SortedSeq(S) : S \in {T \in SUBSET Dimacs : Cardinality(T) <= MaxLen}}

\* An integer naming a clause of ClauseSpace, to list clauses in one order.
RECURSIVE Pow2(_)
Pow2(n) == IF n = 0 THEN 1 ELSE 2 * Pow2(n - 1)

RECURSIVE ClauseKey(_)
ClauseKey(cl) == IF cl = <<>> THEN 0 ELSE Pow2(from_dimacs(Head(cl))) + ClauseKey(Tail(cl))

\* The enumerated clause lists: at most MaxClauses distinct clauses, listed in
\* one order (the order of a clause list only renumbers the clause ids).
Enumerated ==
    UNION {{f \in [1..n -> ClauseSpace] :
              \A i \in 1..n, j \in 1..n : i < j => ClauseKey(f[i]) < ClauseKey(f[j])} :
           n \in 0..MaxClauses}

\* The clause lists of the repository's tests and of the spec's scenarios.
Scenario_test_ok == <<<<1, -2, -3>>, <<-1, 2, -3>>, <<-1, -2, 3>>, <<1>>, <<2>>>>

Scenario_do_propagation == <<<<1, -2, -3>>, <<-1, 2, -3>>, <<-1, -2, 3>>>>

Scenario_unsat == <<<<1>>, <<-1>>>>

Scenarios == {Scenario_test_ok, Scenario_do_propagation, Scenario_unsat}

Inputs == Enumerated \cup Scenarios

\* The clauses add_clause is given after loading, and the clause lists
\* loaded before it: those over the variables 1..MaxAddVar.
AddSpace == {cl \in ClauseSpace : \A i \in DOMAIN cl : Abs(cl[i]) <= MaxAddVar}

AddInputs == {f \in Enumerated : \A i \in DOMAIN f : f[i] \in AddSpace}

\* --------------------------------------------- the formula engines' calls
\* One public call on a loaded formula, made on both variants alike.  A
\* conflict or panic ends the use of the formula: the drivers then drop or
\* restore it, the tests unwrap.
ApiLive == pc = "api" /\ IsOk(last.resA) /\ IsOk(last.resB)

ApiIdle ==
    UNCHANGED <<input, mode, solution, stack, pc, ret, pure, learnt>>

\* add_clause on a formula already loaded and possibly propagated; the
\* formula is given at most MaxClauses clauses in all, at most MaxAdded of
\* them after loading (Variant B never drops an entry of `clauses`, so its
\* size counts them).
ApiAddClause ==
    /\ ApiLive
    /\ Cardinality(DOMAIN gcnf.clauses) < MaxClauses
    /\ Cardinality(DOMAIN gcnf.clauses) < Len(input) + MaxAdded
    /\ \E clause \in AddSpace :
          /\ cnf' = Cnf_add_clause(cnf, Clause_from(clause))
          /\ gcnf' = CnfGraph_add_clause(gcnf, Clause_from(clause))
          /\ last' = [op |-> "add_clause", arg |-> clause, resA |-> Ok,
                      resB |-> Ok, litsA |-> <<>>, litsB |-> <<>>]
    /\ ApiIdle

ApiPropagation ==
    /\ ApiLive
    /\ \E lit \in Lits :
       \E oa \in Cnf_propagation(cnf, lit), ob \in CnfGraph_propagation(gcnf, lit) :
          /\ cnf' = oa.cnf
          /\ gcnf' = ob.cnf
          /\ last' = [op |-> "propagation", arg |-> lit, resA |-> oa.res,
                      resB |-> ob.res, litsA |-> <<>>, litsB |-> <<>>]
    /\ ApiIdle

ApiUnitPropagation ==
    /\ ApiLive
    /\ \E clause_id \in 0..Cardinality(DOMAIN gcnf.clauses) :
       \E oa \in Cnf_unit_propagation(cnf, clause_id),
          ob \in CnfGraph_unit_propagation(gcnf, clause_id) :
          /\ cnf' = oa.cnf
          /\ gcnf' = ob.cnf
          /\ last' = [op |-> "unit_propagation", arg |-> clause_id, resA |-> oa.res,
                      resB |-> ob.res, litsA |-> <<>>, litsB |-> <<>>]
    /\ ApiIdle

ApiUnitPropagations ==
    /\ ApiLive
    /\ \E oa \in Cnf_unit_propagations(cnf), ob \in CnfGraph_unit_propagations(gcnf) :
          /\ cnf' = oa.cnf
          /\ gcnf' = ob.cnf
          /\ last' = [op |-> "unit_propagations", arg |-> 0, resA |-> oa.res,
                      resB |-> ob.res, litsA |-> oa.lits, litsB |-> ob.lits]
    /\ ApiIdle

\* The formula loaded from a clause list, in both variants.
InitApi ==
    /\ input \in Inputs
    /\ mode = "api"
    /\ cnf = Cnf_from(Clauses_from(input))
    /\ gcnf = CnfGraph_from(Clauses_from(input))
    /\ solution = EmptyMap
    /\ stack = <<>>
    /\ pc = "api"
    /\ ret = NoResult
    /\ pure = {}
    /\ learnt = <<>>
    /\ last = [op |-> "load", arg |-> 0, resA |-> Ok, resB |-> Ok,
               litsA |-> <<>>, litsB |-> <<>>]

NextApi ==
    \/ ApiPropagation
    \/ ApiUnitPropagation
    \/ ApiUnitPropagations

SpecApi == InitApi /\ [][NextApi]_vars

\* The two variants driven by one sequence of propagation and
\* unit_propagation calls.
NextPair ==
    \/ ApiPropagation
    \/ ApiUnitPropagation

SpecPair == InitApi /\ [][NextPair]_vars

\* The same calls with add_clause among them, on the formulas over the
\* variables 1..MaxAddVar.
InitAdd == InitApi /\ input \in AddInputs

NextAdd ==
    \/ ApiAddClause
    \/ ApiPropagation
    \/ ApiUnitPropagation
    \/ ApiUnitPropagations

SpecAdd == InitAdd /\ [][NextAdd]_vars

\* learn_from_conflict called with the clause id of the conflict a call on
\* the formula has just reported; no guess has been made on the formula.
ApiLearnFromConflict ==
    /\ pc = "api" /\ last.op # "learn_from_conflict" /\ last.resB.tag = "Err"
    /\ \E c \in CnfGraph_learn_from_conflict(gcnf, last.resB.val) :
          last' = [op |-> "learn_from_conflict", arg |-> last.resB.val,
                   resA |-> last.resA, resB |-> c, litsA |-> <<>>, litsB |-> <<>>]
    /\ UNCHANGED <<cnf, gcnf>>
    /\ ApiIdle

\* The calls on a loaded formula over the variables 1..MaxAddVar, with
\* learn_from_conflict after a conflict.
NextLearn ==
    \/ ApiPropagation
    \/ ApiUnitPropagation
    \/ ApiUnitPropagations
    \/ ApiLearnFromConflict

SpecLearn == InitAdd /\ [][NextLearn]_vars

\* ------------------------------------------------------ the search drivers
\* A call of _dpll / _cfcl runs from "call" (its entry) through "pure" (its
\* pure-literal loop) to a return ("ret") or to the recursive call it makes
\* after pushing its frame: the snapshot, the guess and which branch is
\* running.  "done" is the return of dpll / cfcl itself, or a panic.
DriverIdle == UNCHANGED <<input, mode, last>>

Return(r) == pc' = "ret" /\ ret' = r

Abort == pc' = "done" /\ ret' = Panic

Frame(c, sol, guess_lit, branch) ==
    [saved_cnf |-> c, saved_solution |-> sol, guess_lit |-> guess_lit, branch |-> branch]

\* A backtrack that keeps the formula of the failed branch.
KeepCurrent(saved, current) == current

\* `*cnf = _cnf`: on backtrack the formula becomes the snapshot again.
Restore(saved, current) == saved

\* ------------------------------------------------------------ dpll.rs
\* _dpll, lines 52-60: the empty test, unit_propagations, the assignments.
DpllUnits ==
    /\ mode = "dpll" /\ pc = "call"
    /\ IF DOMAIN cnf.clauses = {}
       THEN /\ Return([tag |-> "Ok", val |-> solution])
            /\ UNCHANGED <<cnf, solution, pure>>
       ELSE \E run \in Cnf_unit_propagations(cnf) :
              /\ cnf' = run.cnf
              /\ IF run.res.tag = "Err"
                 THEN Return(run.res) /\ UNCHANGED <<solution, pure>>
                 ELSE IF run.res.tag = "Panic" \/ ~AllInRange(solution, run.lits)
                 THEN Abort /\ UNCHANGED <<solution, pure>>
                 ELSE /\ solution' = AssignAll(solution, run.lits)
                      /\ pure' = PureLits(run.cnf.occurrences)
                      /\ pc' = "pure"
                      /\ UNCHANGED ret
    /\ UNCHANGED <<gcnf, stack, learnt>>
    /\ DriverIdle

\* _dpll, lines 68-71: one turn of the loop over the pure literals.
DpllPure ==
    /\ mode = "dpll" /\ pc = "pure" /\ pure # {}
    /\ \E lit \in pure :
         IF ~AssignInRange(solution, lit)
         THEN Abort /\ UNCHANGED <<cnf, solution, pure>>
         ELSE /\ solution' = PartialSolution_assign_lit(solution, lit)
              /\ \E o \in Cnf_propagation(cnf, lit) :
                   /\ cnf' = o.cnf
                   /\ IF o.res.tag = "Ok"
                      THEN pure' = pure \ {lit} /\ UNCHANGED <<pc, ret>>
                      ELSE Return(o.res) /\ UNCHANGED pure
    /\ UNCHANGED <<gcnf, stack, learnt>>
    /\ DriverIdle

\* _dpll, lines 73-98: the terminal test, the guess, the snapshot, the
\* assignment and propagation of the guess, and the first recursive call.
DpllBranch ==
    /\ mode = "dpll" /\ pc = "pure" /\ pure = {}
    /\ IF DOMAIN cnf.occurrences = {}
       THEN /\ IF Cnf_num_clause(cnf) = 0
               THEN Return([tag |-> "Ok", val |-> solution])
               ELSE Return(Err(UsizeMax))
            /\ UNCHANGED <<cnf, solution, stack>>
       ELSE IF Cnf_next_guess(cnf) = {}
       THEN Return(Err(UsizeMax)) /\ UNCHANGED <<cnf, solution, stack>>
       ELSE \E guess_lit \in Cnf_next_guess(cnf) :
              IF ~AssignInRange(solution, guess_lit)
              THEN Abort /\ UNCHANGED <<cnf, solution, stack>>
              ELSE /\ solution' = PartialSolution_assign_lit(solution, guess_lit)
                   /\ \E o \in Cnf_propagation(cnf, guess_lit) :
                        /\ cnf' = o.cnf
                        /\ IF o.res.tag # "Ok"
                           THEN Return(o.res) /\ UNCHANGED stack
                           ELSE IF DOMAIN o.cnf.clauses = {} /\ DOMAIN o.cnf.occurrences = {}
                           THEN Return([tag |-> "Ok", val |-> solution']) /\ UNCHANGED stack
                           ELSE /\ stack' = Append(stack, Frame(cnf, solution, guess_lit, 1))
                                /\ pc' = "call"
                                /\ UNCHANGED ret
    /\ UNCHANGED <<gcnf, pure, learnt>>
    /\ DriverIdle

\* _dpll, lines 98-109: the recursive call has returned to the frame on top.
DpllReturn ==
    /\ mode = "dpll" /\ pc = "ret" /\ stack # <<>>
    /\ LET frame == stack[Len(stack)]
           below == SubSeq(stack, 1, Len(stack) - 1)
       IN  IF ret.tag = "Ok" \/ frame.branch = 2
           THEN /\ stack' = below
                /\ UNCHANGED <<cnf, solution, pc, ret>>
           ELSE LET guess_not == not(frame.guess_lit)
                IN  \E o \in Cnf_propagation(Restore(frame.saved_cnf, cnf), guess_not) :
                      /\ cnf' = o.cnf
                      /\ IF o.res.tag # "Ok"
                         THEN /\ solution' = frame.saved_solution
                              /\ stack' = below
                              /\ Return(o.res)
                         ELSE IF ~AssignInRange(frame.saved_solution, guess_not)
                         THEN /\ solution' = frame.saved_solution
                              /\ Abort
                              /\ UNCHANGED stack
                         ELSE /\ solution' =
                                   PartialSolution_assign_lit(frame.saved_solution, guess_not)
                              /\ stack' = Append(below, [frame EXCEPT !.branch = 2])
                              /\ pc' = "call"
                              /\ UNCHANGED ret
    /\ UNCHANGED <<gcnf, pure, learnt>>
    /\ DriverIdle

\* dpll, lines 46-49: _dpll has returned to dpll.
DpllDone ==
    /\ mode = "dpll" /\ pc = "ret" /\ stack = <<>>
    /\ pc' = "done"
    /\ UNCHANGED <<cnf, gcnf, solution, stack, ret, pure, learnt>>
    /\ DriverIdle

\* ------------------------------------------------------------ cfcl.rs
\* _cfcl, lines 58-74, entered when propagate has returned Ok(()): the
\* guess, the snapshot, make_guess, the assignment and propagation of the
\* guess, and the first recursive call.  c and sol are the formula and the
\* assignment as propagate left them.
CfclGuess(c, sol) ==
    IF CnfGraph_next_guess(c) = {}
    THEN Return(Err(UsizeMax)) /\ gcnf' = c /\ solution' = sol /\ UNCHANGED stack
    ELSE \E guess_lit \in CnfGraph_next_guess(c) :
           IF ~AssignInRange(sol, guess_lit)
           THEN Abort /\ gcnf' = CnfGraph_make_guess(c, guess_lit)
                /\ solution' = sol /\ UNCHANGED stack
           ELSE /\ solution' = PartialSolution_assign_lit(sol, guess_lit)
                /\ \E o \in CnfGraph_propagation(CnfGraph_make_guess(c, guess_lit), guess_lit) :
                     /\ gcnf' = o.cnf
                     /\ IF o.res.tag = "Panic"
                        THEN Abort /\ UNCHANGED stack
                        ELSE IF o.res.tag # "Ok"
                        THEN Return(o.res) /\ UNCHANGED stack
                        ELSE IF DOMAIN o.cnf.clauses = {} /\ DOMAIN o.cnf.occurrences = {}
                        THEN Return([tag |-> "Ok", val |-> solution']) /\ UNCHANGED stack
                        ELSE /\ stack' = Append(stack, Frame(c, sol, guess_lit, 1))
                             /\ pc' = "call"
                             /\ UNCHANGED ret

\* propagate, lines 17-25: the empty test, unit_propagations, the
\* assignments; with no clause at all propagate returns and _cfcl guesses.
CfclUnits ==
    /\ mode = "cfcl" /\ pc = "call"
    /\ IF DOMAIN gcnf.clauses = {}
       THEN CfclGuess(gcnf, solution) /\ UNCHANGED pure
       ELSE \E run \in CnfGraph_unit_propagations(gcnf) :
              /\ gcnf' = run.cnf
              /\ UNCHANGED stack
              /\ IF run.res.tag = "Err"
                 THEN Return(run.res) /\ UNCHANGED <<solution, pure>>
                 ELSE IF run.res.tag = "Panic" \/ ~AllInRange(solution, run.lits)
                 THEN Abort /\ UNCHANGED <<solution, pure>>
                 ELSE /\ solution' = AssignAll(solution, run.lits)
                      /\ pure' = PureLits(run.cnf.occurrences)
                      /\ pc' = "pure"
                      /\ UNCHANGED ret
    /\ UNCHANGED <<cnf, learnt>>
    /\ DriverIdle

\* propagate, lines 34-37: one turn of the loop over the pure literals.
CfclPure ==
    /\ mode = "cfcl" /\ pc = "pure" /\ pure # {}
    /\ \E lit \in pure :
         IF ~AssignInRange(solution, lit)
         THEN Abort /\ UNCHANGED <<gcnf, solution, pure>>
         ELSE /\ solution' = PartialSolution_assign_lit(solution, lit)
              /\ \E o \in CnfGraph_propagation(gcnf, lit) :
                   /\ gcnf' = o.cnf
                   /\ IF o.res.tag = "Ok"
                      THEN pure' = pure \ {lit} /\ UNCHANGED <<pc, ret>>
                      ELSE IF o.res.tag = "Panic"
                      THEN Abort /\ UNCHANGED pure
                      ELSE Return(o.res) /\ UNCHANGED pure
    /\ UNCHANGED <<cnf, stack, learnt>>
    /\ DriverIdle

\* propagate, lines 39-47, then _cfcl from line 58 on.
CfclBranch ==
    /\ mode = "cfcl" /\ pc = "pure" /\ pure = {}
    /\ IF DOMAIN gcnf.occurrences = {} /\ CnfGraph_num_clause(gcnf) # 0
       THEN Return(Err(UsizeMax)) /\ UNCHANGED <<gcnf, solution, stack>>
       ELSE CfclGuess(gcnf, solution)
    /\ UNCHANGED <<cnf, pure, learnt>>
    /\ DriverIdle

\* _cfcl, lines 74-101: the recursive call has returned to the frame on top.
CfclReturn ==
    /\ mode = "cfcl" /\ pc = "ret" /\ stack # <<>>
    /\ LET frame == stack[Len(stack)]
           below == SubSeq(stack, 1, Len(stack) - 1)
       IN  IF ret.tag = "Ok" \/ ret.val = UsizeMax
           THEN /\ stack' = below
                /\ UNCHANGED <<gcnf, solution, pc, ret, learnt>>
           ELSE \E c \in CnfGraph_learn_from_conflict(gcnf, ret.val) :
                  IF c.tag = "Panic"
                  THEN Abort /\ UNCHANGED <<gcnf, solution, stack, learnt>>
                  ELSE /\ learnt' = Append(learnt, c.val)
                       /\ IF frame.branch = 2
                          THEN /\ stack' = below
                               /\ UNCHANGED <<gcnf, solution, pc, ret>>
                          ELSE LET guess_not == not(frame.guess_lit)
                                   guessed   == CnfGraph_make_guess(Restore(frame.saved_cnf, gcnf),
                                                                    guess_not)
                               IN  \E o \in CnfGraph_propagation(guessed, guess_not) :
                                     /\ gcnf' = o.cnf
                                     /\ IF o.res.tag = "Panic"
                                        THEN /\ solution' = frame.saved_solution
                                             /\ Abort
                                             /\ UNCHANGED stack
                                        ELSE IF o.res.tag # "Ok"
                                        THEN /\ solution' = frame.saved_solution
                                             /\ stack' = below
                                             /\ Return(o.res)
                                        ELSE IF ~AssignInRange(frame.saved_solution, guess_not)
                                        THEN /\ solution' = frame.saved_solution
                                             /\ Abort
                                             /\ UNCHANGED stack
                                        ELSE /\ solution' = PartialSolution_assign_lit(
                                                              frame.saved_solution, guess_not)
                                             /\ stack' = Append(below, [frame EXCEPT !.branch = 2])
                                             /\ pc' = "call"
                                             /\ UNCHANGED ret
    /\ UNCHANGED <<cnf, pure>>
    /\ DriverIdle

\* cfcl, lines 5-14: _cfcl has returned to cfcl.
CfclDone ==
    /\ mode = "cfcl" /\ pc = "ret" /\ stack = <<>>
    /\ pc' = "done"
    /\ UNCHANGED <<cnf, gcnf, solution, stack, ret, pure, learnt>>
    /\ DriverIdle

\* dpll(cnf) / cfcl(cnf) called on a freshly loaded formula.
Init ==
    /\ input \in Inputs
    /\ mode \in {"dpll", "cfcl"}
    /\ cnf = Cnf_from(Clauses_from(input))
    /\ gcnf = CnfGraph_from(Clauses_from(input))
    /\ solution = PartialSolution_new(Clauses_from(input).n_lit)
    /\ stack = <<>>
    /\ pc = "call"
    /\ ret = NoResult
    /\ pure = {}
    /\ learnt = <<>>
    /\ last = [op |-> "load", arg |-> 0, resA |-> Ok, resB |-> Ok,
               litsA |-> <<>>, litsB |-> <<>>]

Next ==
    \/ DpllUnits
    \/ DpllPure
    \/ DpllBranch
    \/ DpllReturn
    \/ DpllDone
    \/ CfclUnits
    \/ CfclPure
    \/ CfclBranch
    \/ CfclReturn
    \/ CfclDone

Spec == Init /\ [][Next]_vars

\* A call of dpll or cfcl runs on: the thread takes its next step as long as
\* it has one.
SpecLive == Init /\ [][Next]_vars /\ WF_vars(Next)

\* The clause list of tests::test_learn (cfcl.rs), on which cfcl learns
\* clauses of several literals.
Scenario_test_learn ==
    <<<<-2, -3, -4, 5>>, <<-1, -5, 6>>, <<-5, 7>>, <<-1, -6, -7>>, <<-1, -2, 5>>,
      <<-1, -3, 5>>, <<-1, -4, 5>>, <<1, 4>>, <<-1, 2, 3, 4, 5, -6>>>>

\* A satisfiable clause list of four clauses on which cfcl meets a conflict
\* under its second guess: x1 occurs in a tautology only, and x2 forces both
\* x3 and its complement.
Scenario_two_guesses == <<<<-1, 1>>, <<-2, -3>>, <<-2, 3>>, <<2, 3>>>>

DeepInputs == Inputs \cup {Scenario_test_learn, Scenario_two_guesses}

\* dpll(cnf) / cfcl(cnf) called on a freshly loaded formula, that of
\* test_learn among the formulas.
InitDeep ==
    /\ input \in DeepInputs
    /\ mode \in {"dpll", "cfcl"}
    /\ cnf = Cnf_from(Clauses_from(input))
    /\ gcnf = CnfGraph_from(Clauses_from(input))
    /\ solution = PartialSolution_new(Clauses_from(input).n_lit)
    /\ stack = <<>>
    /\ pc = "call"
    /\ ret = NoResult
    /\ pure = {}
    /\ learnt = <<>>
    /\ last = [op |-> "load", arg |-> 0, resA |-> Ok, resB |-> Ok,
               litsA |-> <<>>, litsB |-> <<>>]

SpecDeep == InitDeep /\ [][Next]_vars

\* ------------------------------------------------ what the claims speak of
\* The literal given by a signed integer is true under an assignment of the
\* variables 1..n.
Holds(a, x) == IF x > 0 THEN a[x] ELSE ~a[0 - x]

MaxVarOf(f) == SetMax(UNION {{Abs(f[i][j]) : j \in DOMAIN f[i]} : i \in DOMAIN f})

\* Brute force: some assignment makes a literal of every clause true.
Satisfiable(f) ==
    \E a \in [1..MaxVarOf(f) -> BOOLEAN] :
       \A i \in DOMAIN f : \E j \in DOMAIN f[i] : Holds(a, f[i][j])

\* The variable of lit is assigned lit's polarity in the PartialSolution.
LitTrue(sol, lit) ==
    /\ index(lit) \in DOMAIN sol.solution
    /\ sol.solution[index(lit)] = (IF is_positive(lit) THEN "true" ELSE "false")

Finished(m) == mode = m /\ pc = "done"

Top == stack[Len(stack)]

\* The active clauses of either variant and the literals left in them.
ActiveA(c) == DOMAIN c.clauses

LitsA(c, id) == c.clauses[id]

ActiveB(c) == {id \in DOMAIN c.clauses : c.clauses[id].valid}

LitsB(c, id) == FakeHashSet_iter(c.clauses[id].set)

\* The literals of the input clause loaded under clause id `id`.
InputLits(id) == Range(Clause_from(input[id + 1]))

\* ------------------------------------------------------------- the claims
\* C1: whenever dpll returns Ok(assignment), under every choice of branch
\* literal and worklist order, every clause of the input has a literal whose
\* variable the returned assignment gives that literal's polarity.
C1_DpllSound ==
    (Finished("dpll") /\ ret.tag = "Ok") =>
        \A i \in DOMAIN input :
           \E j \in DOMAIN input[i] : LitTrue(ret.val, from_dimacs(input[i][j]))

\* dpll has returned Ok on an input of MaxClauses clauses, none of them a unit
\* clause, so that it had to branch.
C1_Witness ==
    /\ Finished("dpll") /\ ret.tag = "Ok"
    /\ Len(input) >= MaxClauses
    /\ \A i \in DOMAIN input : Len(input[i]) >= 2

\* C2: dpll returns Ok when the input is satisfiable and Err when it is not.
C2_DpllDecides ==
    Finished("dpll") =>
        /\ Satisfiable(input) => ret.tag = "Ok"
        /\ ~Satisfiable(input) => ret.tag = "Err"

\* C3: cfcl returns Ok with an assignment when the input is satisfiable and
\* Err when it is not (stated of the runs in which cfcl returns at all: a
\* panic is not held against it here).
C3_CfclDecides ==
    (Finished("cfcl") /\ ret.tag # "Panic") =>
        /\ Satisfiable(input) => ret.tag = "Ok"
        /\ ~Satisfiable(input) => ret.tag = "Err"

\* C4: whenever dpll or cfcl returns Ok, the returned PartialSolution has
\* is_solved() true: no variable index is left in un_solved and every index
\* below n_lit has a value.
C4_OkIsSolved ==
    (pc = "done" /\ ret.tag = "Ok") =>
        /\ PartialSolution_is_solved(ret.val)
        /\ \A i \in DOMAIN ret.val.solution : ret.val.solution[i] # "None"

\* C5: in both drivers, when unit propagation and pure-literal elimination
\* of a call have left no active clause, the call does not return a failure:
\* if it returns at its next step, it returns Ok with the current assignment.
C5_SolvedCallSucceeds ==
    [][(/\ pc = "pure" /\ pure = {}
        /\ (mode = "dpll" => ActiveA(cnf) = {})
        /\ (mode = "cfcl" => ActiveB(gcnf) = {})
        /\ pc' = "ret")
       => (ret'.tag = "Ok" /\ ret'.val = solution)]_vars

\* C6: in both drivers a branching call fails only after the candidate and
\* its complement have both been tried and have failed: when the call made
\* for the candidate has failed, with a clause id or with usize::MAX, the
\* call either goes on to the complement branch or fails with the conflict
\* that propagating the complement on the snapshot produces.
C6_BothBranchesTried ==
    [][(/\ pc = "ret" /\ stack # <<>> /\ ret.tag = "Err" /\ Top.branch = 1
        /\ pc' = "ret")
       => (/\ mode = "dpll" =>
                \E o \in Cnf_propagation(Top.saved_cnf, not(Top.guess_lit)) :
                   o.res.tag = "Err" /\ ret' = o.res
           /\ mode = "cfcl" =>
                \E o \in CnfGraph_propagation(
                           CnfGraph_make_guess(Top.saved_cnf, not(Top.guess_lit)),
                           not(Top.guess_lit)) :
                   o.res.tag = "Err" /\ ret' = o.res)]_vars

\* The state in which the complement branch of the frame on top starts: the
\* snapshot with the complement recorded as a guess (Variant B), propagated
\* and assigned.
ComplementStart ==
    /\ mode = "dpll" =>
         \E o \in Cnf_propagation(Top.saved_cnf, not(Top.guess_lit)) :
            o.res.tag = "Ok" /\ cnf = o.cnf
    /\ mode = "cfcl" =>
         \E o \in CnfGraph_propagation(
                    CnfGraph_make_guess(Top.saved_cnf, not(Top.guess_lit)),
                    not(Top.guess_lit)) :
            o.res.tag = "Ok" /\ gcnf = o.cnf
    /\ solution = PartialSolution_assign_lit(Top.saved_solution, not(Top.guess_lit))

\* C7: the snapshot a call pushes is the formula and the PartialSolution as
\* they are just before the candidate is assigned, and when the candidate's
\* branch has failed the complement branch starts from that snapshot: the
\* state at its start is the snapshot with the complement propagated and
\* assigned, and holds nothing else of the failed branch.
C7_ComplementFromSnapshot ==
    [][/\ Len(stack') = Len(stack) + 1 =>
            /\ stack'[Len(stack')].saved_cnf = (IF mode = "dpll" THEN cnf ELSE gcnf)
            /\ stack'[Len(stack')].saved_solution = solution
            /\ stack'[Len(stack')].branch = 1
       /\ (pc' = "call" /\ Len(stack') = Len(stack) /\ stack # <<>>) =>
            /\ Top.branch = 1 /\ stack' = [stack EXCEPT ![Len(stack)].branch = 2]
            /\ ComplementStart']_vars

\* cfcl starts a complement branch after a conflict in the candidate's branch
\* (a clause was learnt from it), and the failed branch had changed the
\* formula: the snapshot differs from the formula the failed call ended with.
C7_Witness ==
    /\ mode = "cfcl" /\ pc = "call" /\ stack # <<>> /\ Top.branch = 2
    /\ learnt # <<>>
    /\ gcnf.guessed = Append(Top.saved_cnf.guessed, not(Top.guess_lit))

\* C8: after any sequence of calls, in both variants, a literal is a key of
\* the occurrence index exactly when some active clause contains it.
C8_KeysAreOccurring ==
    ApiLive =>
        /\ \A lit \in Lits :
              lit \in DOMAIN cnf.occurrences <=>
                 \E id \in ActiveA(cnf) : lit \in LitsA(cnf, id)
        /\ \A lit \in Lits :
              lit \in DOMAIN gcnf.occurrences <=>
                 \E id \in ActiveB(gcnf) : lit \in LitsB(gcnf, id)

\* C9: after any sequence of public calls that returned without conflict,
\* every id in units is the id of an active clause with exactly one literal.
C9_UnitsAreActiveUnits ==
    ApiLive =>
        /\ \A id \in cnf.units :
              id \in ActiveA(cnf) /\ Cardinality(LitsA(cnf, id)) = 1
        /\ \A id \in gcnf.units :
              id \in ActiveB(gcnf) /\ Cardinality(LitsB(gcnf, id)) = 1

\* What propagation(lit) has done between the formula `pre` and the formula
\* `post`, given by their active ids, clause literals and index keys.
PropagationDone(preActive, preLits(_), postActive, postLits(_), postKeys, lit) ==
    /\ postActive \subseteq preActive
    /\ \A id \in preActive :
          IF lit \in preLits(id) THEN id \notin postActive
          ELSE id \in postActive /\ postLits(id) = preLits(id) \ {not(lit)}
    /\ lit \notin postKeys /\ not(lit) \notin postKeys
    /\ \A id \in postActive : lit \notin postLits(id) /\ not(lit) \notin postLits(id)

\* C10: after propagation(L) returns Ok, in both variants, every clause that
\* was active and contained L is inactive, every other active clause is still
\* active and has lost the complement of L and nothing else, and neither L
\* nor its complement is a key of the occurrence index or a literal of an
\* active clause.
C10_PropagationPost ==
    [][(last'.op = "propagation") =>
         /\ IsOk(last'.resA) =>
              LET preL(id) == LitsA(cnf, id)
                  postL(id) == LitsA(cnf', id)
              IN  PropagationDone(ActiveA(cnf), preL, ActiveA(cnf'), postL,
                                  DOMAIN cnf'.occurrences, last'.arg)
         /\ IsOk(last'.resB) =>
              LET preL(id) == LitsB(gcnf, id)
                  postL(id) == LitsB(gcnf', id)
              IN  PropagationDone(ActiveB(gcnf), preL, ActiveB(gcnf'), postL,
                                  DOMAIN gcnf'.occurrences, last'.arg)]_vars

\* propagation(L) has returned Ok in both variants on a formula of which it
\* has deactivated a clause that contained L and shrunk a clause that
\* contained the complement of L.
C10_Witness ==
    /\ pc = "api" /\ last.op = "propagation" /\ IsOk(last.resA) /\ IsOk(last.resB)
    /\ \E i \in 0..(Len(input) - 1), j \in 0..(Len(input) - 1) :
          /\ last.arg \in InputLits(i) /\ i \notin ActiveA(cnf) /\ i \notin ActiveB(gcnf)
          /\ not(last.arg) \in InputLits(j) /\ j \in ActiveA(cnf) /\ j \in ActiveB(gcnf)
          /\ LitsA(cnf, j) = InputLits(j) \ {not(last.arg)}
          /\ LitsB(gcnf, j) = InputLits(j) \ {not(last.arg)}

\* What a propagation(lit) call that returned `res` has done about conflicts
\* and units, between the formula before it (active ids, clause literals)
\* and after it (active ids, clause literals, unit worklist).
ConflictReported(preActive, preLits(_), postActive, postLits(_), postUnits, lit, res) ==
    /\ res.tag = "Err" <=> \E id \in preActive : preLits(id) = {not(lit)}
    /\ res.tag = "Err" => res.val \in preActive /\ preLits(res.val) = {not(lit)}
    /\ IsOk(res) =>
          \A id \in postActive \cap preActive :
             (not(lit) \in preLits(id) /\ Cardinality(postLits(id)) = 1)
                => id \in postUnits

\* C11: propagation(L) returns Err(id) exactly when, at the time of the
\* call, some active clause consists of the complement of L alone, and id is
\* the id of such a clause; a clause that the call shrinks to one literal is
\* put in the unit worklist and no error is returned for it.
C11_ConflictIffSoleComplement ==
    [][(last'.op = "propagation") =>
         /\ LET preL(id) == LitsA(cnf, id)
                postL(id) == LitsA(cnf', id)
            IN  ConflictReported(ActiveA(cnf), preL, ActiveA(cnf'), postL,
                                 cnf'.units, last'.arg, last'.resA)
         /\ LET preL(id) == LitsB(gcnf, id)
                postL(id) == LitsB(gcnf', id)
            IN  ConflictReported(ActiveB(gcnf), preL, ActiveB(gcnf'), postL,
                                 gcnf'.units, last'.arg, last'.resB)]_vars

\* propagation(L) has returned Err(id) in both variants for an input clause
\* that is the complement of L alone, on a formula that has other clauses.
C11_Witness ==
    /\ pc = "api" /\ last.op = "propagation"
    /\ last.resA.tag = "Err" /\ last.resB.tag = "Err"
    /\ last.resA.val < Len(input) /\ InputLits(last.resA.val) = {not(last.arg)}
    /\ Len(input) >= 2

\* The active clauses of a formula, each id with the literals left in it.
ViewA(c) == [id \in ActiveA(c) |-> LitsA(c, id)]

ViewB(c) == [id \in ActiveB(c) |-> LitsB(c, id)]

\* What making lit true does to a set of clauses: the clauses that contain
\* lit go, the others lose its complement.
Simplified(F, lit) ==
    [id \in {i \in DOMAIN F : lit \notin F[i]} |-> F[id] \ {not(lit)}]

\* No set of clauses: the replay met a literal that no clause consisted of.
NoView == [id \in {0 - 1} |-> {}]

\* The clauses left when the literals lits[i], lits[i+1], ... are made true
\* one after another, each being at its turn the only literal of a clause.
RECURSIVE UnitReplay(_, _, _)
UnitReplay(F, lits, i) ==
    IF i > Len(lits) THEN F
    ELSE IF \E id \in DOMAIN F : F[id] = {lits[i]}
    THEN UnitReplay(Simplified(F, lits[i]), lits, i + 1)
    ELSE NoView

UnitFixpoint(preView, postView, postUnits, lits) ==
    /\ postUnits = {}
    /\ \A id \in DOMAIN postView : Cardinality(postView[id]) # 1
    /\ UnitReplay(preView, lits, 1) = postView

\* C12: when unit_propagations returns Ok(lits), in both variants, the unit
\* worklist is empty, no active clause has exactly one literal, and lits is
\* the sequence of the literals propagated: made true in that order, each the
\* only literal of an active clause at its turn, they turn the formula before
\* the call into the formula after it.
C12_UnitFixpoint ==
    [][(last'.op = "unit_propagations") =>
         /\ IsOk(last'.resA) =>
               UnitFixpoint(ViewA(cnf), ViewA(cnf'), cnf'.units, last'.litsA)
         /\ IsOk(last'.resB) =>
               UnitFixpoint(ViewB(gcnf), ViewB(gcnf'), gcnf'.units, last'.litsB)]_vars

\* unit_propagations has returned Ok in both variants with two literals, the
\* second the only literal of a clause that the first propagation shrank.
C12_Witness ==
    /\ pc = "api" /\ last.op = "unit_propagations"
    /\ IsOk(last.resA) /\ IsOk(last.resB)
    /\ Len(last.litsA) >= 2 /\ Len(last.litsB) >= 2
    /\ \E i \in 0..(Len(input) - 1) :
          /\ Cardinality(InputLits(i)) = 2
          /\ InputLits(i) = {not(last.litsA[1]), last.litsA[2]}

\* C13: in both variants, propagation(L) called again right after
\* propagation(L) has returned (Ok or a conflict) returns Ok and leaves the
\* active clauses and the occurrence index as the first call left them.
C13_PropagationTwice ==
    [][(last'.op = "propagation") =>
         /\ last'.resA.tag # "Panic" =>
               \A o \in Cnf_propagation(cnf', last'.arg) :
                  /\ IsOk(o.res)
                  /\ ViewA(o.cnf) = ViewA(cnf')
                  /\ o.cnf.occurrences = cnf'.occurrences
         /\ last'.resB.tag # "Panic" =>
               \A o \in CnfGraph_propagation(gcnf', last'.arg) :
                  /\ IsOk(o.res)
                  /\ ViewB(o.cnf) = ViewB(gcnf')
                  /\ o.cnf.occurrences = gcnf'.occurrences]_vars

\* propagation(L) has returned Ok in both variants after removing two
\* clauses that contained L and shrinking one that contained its complement:
\* the state in which the second call is made.
C13_Witness ==
    /\ pc = "api" /\ last.op = "propagation" /\ IsOk(last.resA) /\ IsOk(last.resB)
    /\ \E i, j, k \in 0..(Len(input) - 1) :
          /\ i # j
          /\ last.arg \in InputLits(i) \cap InputLits(j)
          /\ {i, j} \cap (ActiveA(cnf) \cup ActiveB(gcnf)) = {}
          /\ not(last.arg) \in InputLits(k)
          /\ k \in ActiveA(cnf) /\ k \in ActiveB(gcnf)

\* C14: in both variants, on a freshly loaded formula, propagation(L)
\* followed by propagation of the complement of L either returns a conflict
\* both times, or the second call changes neither the active clauses nor the
\* occurrence index.
C14_ThenComplement ==
    [][(last.op = "load" /\ last'.op = "propagation") =>
         /\ last'.resA.tag # "Panic" =>
               \A o \in Cnf_propagation(cnf', not(last'.arg)) :
                  \/ last'.resA.tag = "Err" /\ o.res.tag = "Err"
                  \/ /\ ViewA(o.cnf) = ViewA(cnf')
                     /\ o.cnf.occurrences = cnf'.occurrences
         /\ last'.resB.tag # "Panic" =>
               \A o \in CnfGraph_propagation(gcnf', not(last'.arg)) :
                  \/ last'.resB.tag = "Err" /\ o.res.tag = "Err"
                  \/ /\ ViewB(o.cnf) = ViewB(gcnf')
                     /\ o.cnf.occurrences = gcnf'.occurrences]_vars

\* propagation(L) has returned Ok in both variants on the loaded formula, in
\* which L and its complement both occur: the clauses are those of the input
\* simplified by L, and the complementary call is next.
C14_Witness ==
    /\ pc = "api" /\ last.op = "propagation" /\ IsOk(last.resA) /\ IsOk(last.resB)
    /\ \E i, k \in 0..(Len(input) - 1) :
          last.arg \in InputLits(i) /\ not(last.arg) \in InputLits(k)
    /\ ViewA(cnf) = Simplified([id \in 0..(Len(input) - 1) |-> InputLits(id)], last.arg)
    /\ ViewB(gcnf) = ViewA(cnf)

\* The choice the Direct strategy is described to make from a set of keys:
\* no literal when there is no key, else the positive form of the smallest.
DirectGuess(keys) ==
    IF keys = {} THEN {}
    ELSE LET lit == SetMin(keys) IN {IF is_negative(lit) THEN not(lit) ELSE lit}

\* C15: in both variants next_guess(Strategy::Direct) is a function of the
\* occurrence index: the set of literals it can return is empty exactly when
\* the index has no key, and otherwise holds only the positive form of the
\* smallest key.
C15_NextGuessDirect ==
    /\ mode = "dpll" => Cnf_next_guess(cnf) = DirectGuess(DOMAIN cnf.occurrences)
    /\ mode = "cfcl" => CnfGraph_next_guess(gcnf) = DirectGuess(DOMAIN gcnf.occurrences)

\* The part of C15 about Variant B alone.
C15_NextGuessDirectB ==
    mode = "cfcl" => CnfGraph_next_guess(gcnf) = DirectGuess(DOMAIN gcnf.occurrences)

\* dpll is about to guess on a formula whose occurrence index has keys of
\* two variables at least.
C15_Witness ==
    /\ mode = "dpll" /\ pc = "pure" /\ pure = {}
    /\ Cardinality({index(l) : l \in DOMAIN cnf.occurrences}) >= 2

\* C16: for every formula the loader builds, the variable index of every
\* literal of the input is a position of the table PartialSolution::new made
\* from the loader's variable count, so that assign_lit stays inside it.
C16_IndexInRange ==
    \A i \in DOMAIN input : \A j \in DOMAIN input[i] :
       /\ index(from_dimacs(input[i][j])) \in 0..(Clauses_from(input).n_lit - 1)
       /\ AssignInRange(solution, from_dimacs(input[i][j]))

\* dpll has been run to its end on an input whose variable ids are not
\* contiguous from 1, and assign_lit was called with an index outside the
\* table.
C16_Witness ==
    /\ Finished("dpll") /\ ret.tag = "Panic"
    /\ MaxVarOf(input) > Clauses_from(input).n_lit
    /\ \A i \in DOMAIN input : Len(input[i]) = 1

\* assign_lit(lit) on sol gives a value to a variable that has none.
AssignsFresh(sol, lit) ==
    AssignInRange(sol, lit) => sol.solution[index(lit)] = "None"

\* assign_lit for each literal of the list in turn, each time fresh.
AssignsFreshAll(sol, lits) ==
    /\ \A i \in DOMAIN lits : AssignsFresh(sol, lits[i])
    /\ \A i, j \in DOMAIN lits : i # j => index(lits[i]) # index(lits[j])

\* cfcl.rs:58-67 is reached from this state: propagate returns Ok(()).
CfclGuessNext ==
    /\ mode = "cfcl"
    /\ \/ pc = "call" /\ DOMAIN gcnf.clauses = {}
       \/ /\ pc = "pure" /\ pure = {}
          /\ ~(DOMAIN gcnf.occurrences = {} /\ CnfGraph_num_clause(gcnf) # 0)

\* C17: along a search path of either driver every call of assign_lit is
\* for a variable without a value: the literals of unit_propagations, the
\* pure literals, the guess, and the complement of the guess assigned to the
\* restored snapshot.
C17_AssignOnce ==
    /\ (mode = "dpll" /\ pc = "call" /\ DOMAIN cnf.clauses # {}) =>
          \A run \in Cnf_unit_propagations(cnf) :
             IsOk(run.res) => AssignsFreshAll(solution, run.lits)
    /\ (mode = "cfcl" /\ pc = "call" /\ DOMAIN gcnf.clauses # {}) =>
          \A run \in CnfGraph_unit_propagations(gcnf) :
             IsOk(run.res) => AssignsFreshAll(solution, run.lits)
    /\ (pc = "pure") =>
          /\ \A lit \in pure : AssignsFresh(solution, lit)
          /\ \A l1, l2 \in pure : l1 # l2 => index(l1) # index(l2)
    /\ (mode = "dpll" /\ pc = "pure" /\ pure = {} /\ DOMAIN cnf.occurrences # {}) =>
          \A guess_lit \in Cnf_next_guess(cnf) : AssignsFresh(solution, guess_lit)
    /\ CfclGuessNext =>
          \A guess_lit \in CnfGraph_next_guess(gcnf) : AssignsFresh(solution, guess_lit)
    /\ (pc = "ret" /\ stack # <<>>) =>
          AssignsFresh(Top.saved_solution, not(Top.guess_lit))

\* The parts of C17 about dpll and about cfcl.
C17_AssignOnceDpll == mode = "dpll" => C17_AssignOnce

C17_AssignOnceCfcl == mode = "cfcl" => C17_AssignOnce

\* A driver is in its second branch with two variables assigned at least,
\* one of them by the complement of a guess.
C17_Witness ==
    /\ pc = "call" /\ stack # <<>> /\ Top.branch = 2
    /\ LitTrue(solution, not(Top.guess_lit))
    /\ Cardinality(DOMAIN solution.solution \ solution.un_solved) >= 2

\* C18: learn_from_conflict called for a conflicting clause while no guess
\* is on the decision stack returns None: no clause, and no panic.
C18_NoDecisionNoClause ==
    (pc = "api" /\ last.op = "learn_from_conflict" /\ gcnf.guessed = <<>>) =>
        last.resB.tag = "None"

\* learn_from_conflict has been called with the id of a clause that
\* propagation found empty, on a formula with no guess.
C18_Witness ==
    /\ pc = "api" /\ last.op = "learn_from_conflict" /\ gcnf.guessed = <<>>
    /\ last.arg \in DOMAIN gcnf.clauses
    /\ last.arg < Len(input)

\* The occurrence index says of every literal exactly which active clauses
\* contain it.
IndexExact(occurrences, active, lits(_)) ==
    \A lit \in Lits : \A id \in 0..MaxClauses :
       (lit \in DOMAIN occurrences /\ id \in occurrences[lit])
          <=> (id \in active /\ lit \in lits(id))

\* C19 for Variant A and for Variant B.
C19_IndexExactA ==
    ApiLive => IndexExact(cnf.occurrences, ActiveA(cnf), LAMBDA id : LitsA(cnf, id))

C19_IndexExactB ==
    ApiLive => IndexExact(gcnf.occurrences, ActiveB(gcnf), LAMBDA id : LitsB(gcnf, id))

\* C19: in both variants, after any calls on a loaded formula that all
\* returned without conflict, a clause id is in occurrences[L] exactly when
\* that clause is active and contains L.
C19_IndexExact == C19_IndexExactA /\ C19_IndexExactB

\* Two calls at least have returned Ok: a propagation or unit propagation
\* has removed a clause of two literals and shrunk another, and a key of
\* the index is left.
C19_Witness ==
    /\ ApiLive /\ last.op \in {"unit_propagation", "unit_propagations", "propagation"}
    /\ \E i, k \in 0..(Len(input) - 1) :
          /\ Cardinality(InputLits(i)) = 2 /\ i \notin ActiveA(cnf) /\ i \notin ActiveB(gcnf)
          /\ k \in ActiveA(cnf) /\ k \in ActiveB(gcnf)
          /\ LitsA(cnf, k) # InputLits(k) /\ LitsA(cnf, k) # {}
    /\ DOMAIN cnf.occurrences # {}

\* The clauses after add_clause are those before it and the new clause,
\* under an id none of them had.
AddedFresh(pre, post, clause) ==
    \E id \in DOMAIN post \ DOMAIN pre : post = Put(pre, id, clause)

\* C20 for Variant A and for Variant B.
C20_AddClauseFreshA ==
    [][(last'.op = "add_clause") =>
         AddedFresh(ViewA(cnf), ViewA(cnf'), Range(Clause_from(last'.arg)))]_vars

C20_AddClauseFreshB ==
    [][(last'.op = "add_clause") =>
         AddedFresh(ViewB(gcnf), ViewB(gcnf'), Range(Clause_from(last'.arg)))]_vars

\* C20: in both variants add_clause stores the clause under an id that no
\* stored clause has, also after propagation has removed clauses, and leaves
\* the stored clauses, their ids and their contents as they were.
C20_AddClauseFresh ==
    [][(last'.op = "add_clause") =>
         /\ AddedFresh(ViewA(cnf), ViewA(cnf'), Range(Clause_from(last'.arg)))
         /\ AddedFresh(ViewB(gcnf), ViewB(gcnf'), Range(Clause_from(last'.arg)))]_vars

\* add_clause has been called with a clause of two literals on a formula
\* from which a clause had been removed while another was still stored.
C20_Witness ==
    /\ pc = "api" /\ last.op = "add_clause" /\ Len(last.arg) = 2
    /\ \E i, k \in 0..(Len(input) - 1) :
          i < k /\ i \notin ActiveB(gcnf) /\ k \in ActiveB(gcnf)

\* C21: on every input, under every choice of branch literal and worklist
\* order, dpll and cfcl come to an end, and the end is a returned Ok or Err.
C21_Terminates == <>(pc = "done" /\ ret.tag \in {"Ok", "Err"})

\* The part of C21 that is about coming to an end at all, a panic included.
C21_Stops == <>(pc = "done")

\* The variables of the input are 1..n for some n.
Contiguous == MaxVarOf(input) = Clauses_from(input).n_lit

\* On inputs whose variables are 1..n no run ends in a panic.
C21_NoPanicContiguous == (Contiguous /\ pc = "done") => ret.tag # "Panic"

\* A run has ended by returning, after both branches of a guess were tried
\* on an input of MaxClauses clauses.
C21_Witness ==
    /\ pc = "done" /\ ret.tag = "Err" /\ Len(input) = MaxClauses
    /\ \A i \in DOMAIN input : Len(input[i]) = MaxLen

\* The branch literals of the calls of _cfcl that are on the recursion path:
\* the guess of a frame in its first branch, its complement in the second.
PathLits ==
    [i \in 1..Len(stack) |->
        IF stack[i].branch = 1 THEN stack[i].guess_lit ELSE not(stack[i].guess_lit)]

\* C22: at every point of a cfcl run, `guessed` is the sequence of the
\* branch literals of the current recursion path, in order, and nothing
\* else.
C22_GuessedIsPath ==
    (mode = "cfcl" /\ pc # "done") => gcnf.guessed = PathLits

\* The same while the search goes down: a call of _cfcl has been entered
\* and has not yet returned.
C22_GuessedIsPathDown ==
    (mode = "cfcl" /\ pc \in {"call", "pure"}) => gcnf.guessed = PathLits

\* While a result is handed up, `guessed` still begins with the path.
C22_PathIsPrefixUp ==
    (mode = "cfcl" /\ pc = "ret") =>
        /\ Len(gcnf.guessed) >= Len(stack)
        /\ SubSeq(gcnf.guessed, 1, Len(stack)) = PathLits

\* C22 as the code has it: while the search goes down `guessed` is the
\* path; while a result is handed up the path is its beginning, the guesses
\* of the calls that have returned still following it.
C22_GuessedOnPath == C22_GuessedIsPathDown /\ C22_PathIsPrefixUp

\* cfcl is two guesses deep, the first in its flipped branch, and unit
\* propagation or pure-literal elimination has fixed a variable that is not
\* on the decision stack.
C22_Witness ==
    /\ mode = "cfcl" /\ pc \in {"call", "pure"} /\ Len(stack) = 2
    /\ stack[1].branch = 2
    /\ gcnf.guessed = PathLits
    /\ Cardinality(DOMAIN solution.solution \ solution.un_solved) > Len(gcnf.guessed)

\* The clauses of Variant B from which `lit` was removed between pre and
\* post.
ShrunkBy(pre, post, lit) ==
    {id \in DOMAIN pre.clauses \cap DOMAIN post.clauses :
        /\ lit \in FakeHashSet_iter(pre.clauses[id].set)
        /\ lit \notin FakeHashSet_iter(post.clauses[id].set)}

\* The edges propagation(lit) is to add: from lit to every literal left in
\* a clause that lost the complement of lit.
EdgesDue(pre, post, lit) ==
    {<<lit, y>> : y \in UNION {FakeHashSet_iter(post.clauses[id].set) :
                                 id \in ShrunkBy(pre, post, not(lit))}}

\* C23: in Variant B a propagation(L) that returns (Ok or a conflict) adds
\* the edge from L to Y for every literal Y left in every clause that lost
\* the complement of L, with the nodes they need, and no other edge; no
\* ordered pair of nodes has two edges; no node and no edge is removed.
C23_EdgesOfPropagation ==
    [][(last'.op = "propagation" /\ last'.resB.tag # "Panic") =>
         /\ DOMAIN gcnf'.edges = DOMAIN gcnf.edges \cup EdgesDue(gcnf, gcnf', last'.arg)
         /\ \A e \in DOMAIN gcnf'.edges : gcnf'.edges[e] = 1
         /\ \A e \in DOMAIN gcnf'.edges : e[1] \in gcnf'.nodes /\ e[2] \in gcnf'.nodes
         /\ gcnf.nodes \subseteq gcnf'.nodes]_vars

\* A propagation has given the graph edges from its literal to two other
\* literals, after an earlier call had given it an edge of its own.
C23_Witness ==
    /\ pc = "api" /\ last.op = "propagation" /\ IsOk(last.resB)
    /\ Cardinality({e \in DOMAIN gcnf.edges : e[1] = last.arg}) >= 2
    /\ \E e \in DOMAIN gcnf.edges : e[1] # last.arg

\* The literals from which a literal of S can be reached along the edges of
\* the graph, those of S included.
RECURSIVE BackReach(_, _)
BackReach(c, S) ==
    LET more == S \cup {e[1] : e \in {d \in DOMAIN c.edges : d[2] \in S}}
    IN  IF more = S THEN S ELSE BackReach(c, more)

\* `clause` is the negation of a set that holds root, the first guess, and
\* besides it only literals reached backwards from the complements of the
\* literals of clause clause_id that have a predecessor among the other
\* guesses.
LearnedAsDescribed(c, clause_id, clause) ==
    LET learned == {not(x) : x \in clause}
        root    == c.guessed[1]
        special == Range(c.guessed) \ {root}
        start   == {not(x) : x \in FakeHashSet_all(c.clauses[clause_id].set)} \ {root}
    IN  /\ root \in learned
        /\ not(root) \in clause
        /\ \A l \in learned \ {root} :
              /\ l \in BackReach(c, start)
              /\ \E parent \in special : <<parent, l>> \in DOMAIN c.edges

\* C24: every clause learn_from_conflict returns to _cfcl is the negation of
\* a set made of root and of literals reached backwards from the complements
\* of the conflict clause's literals that have a predecessor in `special`;
\* it contains the complement of root.
C24_LearnedShape ==
    [][(mode = "cfcl" /\ Len(learnt') = Len(learnt) + 1) =>
         LearnedAsDescribed(gcnf, ret.val, learnt'[Len(learnt')])]_vars

\* cfcl has learned a clause of two literals at least.
C24_Witness ==
    /\ mode = "cfcl" /\ learnt # <<>>
    /\ \E i \in DOMAIN learnt : Cardinality(learnt[i]) >= 2

\* The literal is true under the assignment a of the variables 1..n.
LitHolds(a, lit) ==
    IF is_positive(lit) THEN a[index(lit) + 1] ELSE ~a[index(lit) + 1]

\* Every assignment that satisfies all clauses of f satisfies the clause
\* (a set of literals).
Implies(f, clause) ==
    \A a \in [1..MaxVarOf(f) -> BOOLEAN] :
       (\A i \in DOMAIN f : \E j \in DOMAIN f[i] : Holds(a, f[i][j]))
          => \E lit \in clause : LitHolds(a, lit)

\* C25: every clause in cfcl's log of learned clauses is implied by the
\* input formula.
C25_LearnedImplied ==
    mode = "cfcl" => \A i \in DOMAIN learnt : Implies(input, learnt[i])

\* cfcl has learned a clause of two literals on a satisfiable input, under
\* its second guess.
C25_Witness ==
    /\ mode = "cfcl" /\ learnt # <<>> /\ Satisfiable(input)
    /\ Cardinality(learnt[1]) = 2
    /\ Len(gcnf.guessed) >= 2

\* No literal of the implication graph is reached from itself along one
\* edge or more.
Acyclic(c) ==
    \A n \in c.nodes :
       LET parents == {e[1] : e \in {d \in DOMAIN c.edges : d[2] = n}}
       IN  parents # {} => n \notin BackReach(c, parents)

\* _cfcl is about to call learn_from_conflict (cfcl.rs:82, cfcl.rs:96).
LearnNext ==
    /\ mode = "cfcl" /\ pc = "ret" /\ stack # <<>>
    /\ ret.tag = "Err" /\ ret.val # UsizeMax

\* C26: the implication graph cfcl builds is acyclic at every point of a
\* run, and wherever _cfcl calls learn_from_conflict the walk comes to an
\* end with a result, under every order of taking literals from the queue.
C26_WalkTerminates ==
    mode = "cfcl" =>
        /\ Acyclic(gcnf)
        /\ LearnNext => CnfGraph_learn_from_conflict(gcnf, ret.val) # {}

\* The graphs of Variant B under the public calls are acyclic as well.
C26_AcyclicApi == pc = "api" => Acyclic(gcnf)

\* learn_from_conflict is about to walk a graph that has a path of two
\* edges.
C26_Witness ==
    /\ LearnNext
    /\ \E e1, e2 \in DOMAIN gcnf.edges : e1[2] = e2[1]

\* The last call returned the same in both variants.
C27_SameResult ==
    (pc = "api" /\ last.op \in {"propagation", "unit_propagation"}) =>
        /\ last.resA.tag = last.resB.tag
        /\ last.resA.val = last.resB.val

\* As long as no call has returned a conflict or panicked, the variants
\* agree on the active clauses, their literals, the index and the worklist.
C27_SameFormula ==
    ApiLive =>
        /\ ViewA(cnf) = ViewB(gcnf)
        /\ cnf.occurrences = gcnf.occurrences
        /\ cnf.units = gcnf.units

\* C27: Variant A and Variant B, loaded from one clause list and given the
\* same propagation / unit_propagation calls, return the same for every
\* call and, while no call has returned a conflict, have the same active
\* clauses, literals, occurrence index and unit worklist.
C27_VariantsAgree == C27_SameResult /\ C27_SameFormula

\* Both variants have returned Ok(Some(lit)) from a unit_propagation that
\* removed one clause and shrank another, after an earlier call.
C27_Witness ==
    /\ pc = "api" /\ last.op = "unit_propagation"
    /\ last.resA.tag = "OkSome" /\ last.resB.tag = "OkSome"
    /\ \E i, k \in 0..(Len(input) - 1) :
          /\ i \notin ActiveA(cnf)
          /\ k \in ActiveA(cnf) /\ LitsA(cnf, k) # InputLits(k)
    /\ DOMAIN gcnf.edges # {}


\* The clauses of `post` are clauses of `pre` with their literals unchanged,
\* and the clauses gone are exactly those that contain lit.
OnlyDeactivated(pre, post, lit) ==
    /\ DOMAIN post = {id \in DOMAIN pre : lit \notin pre[id]}
    /\ \A id \in DOMAIN post : post[id] = pre[id]

\* The formula the driver of the current mode works on, as a set of clauses.
ViewNow == IF mode = "dpll" THEN ViewA(cnf) ELSE ViewB(gcnf)

\* C28: in both drivers every turn of the loop over the collected pure
\* literals that calls propagation gets Ok from it: the driver stays in the
\* loop with no result set, the literal is assigned and taken off the list,
\* the clauses that contain it are deactivated and every other clause keeps
\* all its literals.  The only other outcome of a turn is the index panic of
\* assign_lit, which happens before propagation is called and leaves the
\* formula untouched; no turn returns Err.
C28_PureNeverConflicts ==
    [][(pc = "pure" /\ pure # {}) =>
         \/ /\ pc' = "done" /\ ret'.tag = "Panic"
            /\ \E lit \in pure : ~AssignInRange(solution, lit)
            /\ cnf' = cnf /\ gcnf' = gcnf
         \/ /\ pc' = "pure" /\ UNCHANGED ret
            /\ \E lit \in pure :
                 /\ pure' = pure \ {lit}
                 /\ solution' = PartialSolution_assign_lit(solution, lit)
                 /\ OnlyDeactivated(ViewNow, ViewNow', lit)]_vars

\* Reached: at the top level of a run on an input without a unit clause, the
\* pure loop has propagated a literal whose complement the input never
\* contains; a clause is gone, the clauses left have all their literals, and
\* a literal is still waiting on the list.
C28_Witness ==
    /\ pc = "pure" /\ stack = <<>> /\ pure # {}
    /\ \A i \in DOMAIN input : Len(input[i]) >= 2
    /\ \E lit \in Lits :
         /\ LitTrue(solution, lit)
         /\ \A i \in DOMAIN input : not(lit) \notin InputLits(i - 1)
         /\ \E i \in DOMAIN input : lit \in InputLits(i - 1)
    /\ DOMAIN ViewNow # {}
    /\ DOMAIN ViewNow # 0..(Len(input) - 1)
    /\ \A id \in DOMAIN ViewNow : ViewNow[id] = InputLits(id)

====
